---------------------------- MODULE Spec2Model ----------------------------
(***************************************************************************)
(* Model of the task tree of the Traycer PoC extension (src/extension.js): *)
(* SpecTaskProvider.getChildren / findTasksFiles / parseTasksFile and the  *)
(* TaskItem constructor.                                                   *)
(*                                                                         *)
(* A JavaScript string is a sequence of one-character strings, so that the *)
(* regular expressions, trim, replace, includes, substring and split are   *)
(* computed character by character.                                        *)
(***************************************************************************)
EXTENDS Naturals, Integers, Sequences, FiniteSets, TLC

(***************************************************************************)
(* Bounds of the model.                                                    *)
(***************************************************************************)
MaxLines == 3        \* lines of the document drawn from the line catalogue
MaxTokens == 3       \* tokens after the task id of a generated task line

(***************************************************************************)
(* JavaScript values.                                                      *)
(***************************************************************************)
Null == [type |-> "null"]

Digits == {"0", "1", "2", "3", "4", "5", "6", "7", "8", "9"}

\* characters `.` does not match
LineTerminators == {"\n", "\r"}

\* characters String.prototype.trim removes
WhiteSpace == {" ", "\t", "\n", "\r"}

Min(a, b) == IF a <= b THEN a ELSE b

\* s.startsWith(lit, p - 1): the literal lit occurs in s at position p
LitAt(s, p, lit) ==
    /\ p >= 1
    /\ p + Len(lit) - 1 <= Len(s)
    /\ \A k \in 1..Len(lit) : s[p + k - 1] = lit[k]

\* An operator that reads a string argument character by character first
\* binds it, as in {... : s \in {str}}, so that the string is computed once.

\* first position from p on whose character is in S (hit = TRUE) or outside
\* S (hit = FALSE), Len(s) + 1 when there is none
FirstFrom(s, p, S, hit) ==
    CHOOSE first \in
        {IF \E q \in from..Len(s) : (s[q] \in S) = hit
         THEN CHOOSE q \in from..Len(s) :
                 /\ (s[q] \in S) = hit
                 /\ \A r \in from..(q - 1) : (s[r] \in S) # hit
         ELSE Len(s) + 1 : from \in {p}} : TRUE

\* last position whose character is outside S, 0 when there is none
LastNotIn(s, S) ==
    CHOOSE q \in 0..Len(s) :
        /\ q = 0 \/ s[q] \notin S
        /\ \A r \in (q + 1)..Len(s) : s[r] \in S

\* length of the longest run of characters of S that starts at position p
RunIn(s, p, S) == FirstFrom(s, p, S, FALSE) - p

\* length of the longest run of characters outside S that starts at p
RunNotIn(s, p, S) == FirstFrom(s, p, S, TRUE) - p

\* s.substring(from, to) with zero-based from and exclusive to
Substring(s, from, to) ==
    LET a == Min(from, Len(s))
        b == Min(to, Len(s))
    IN  IF a >= b THEN <<>> ELSE SubSeq(s, a + 1, b)

\* str.trim()
Trim(str) ==
    CHOOSE trimmed \in
        {IF LastNotIn(s, WhiteSpace) = 0 THEN <<>>
         ELSE SubSeq(s, FirstFrom(s, 1, WhiteSpace, FALSE), LastNotIn(s, WhiteSpace)) :
            s \in {str}} : TRUE

\* s.toLowerCase(), on the letters the documents of the model use
ToLowerCase(s) ==
    [k \in 1..Len(s) |->
        CASE s[k] = "X" -> "x"
          [] s[k] = "P" -> "p"
          [] s[k] = "U" -> "u"
          [] s[k] = "S" -> "s"
          [] s[k] = "T" -> "t"
          [] s[k] = "A" -> "a"
          [] s[k] = "B" -> "b"
          [] OTHER -> s[k]]

\* str.includes(lit)
Includes(str, lit) ==
    \E s \in {str} : \E p \in 1..Len(s) : LitAt(s, p, lit)

\* content.split('\n'): the text up to the next separator, then the rest
RECURSIVE SplitFrom(_, _)
SplitFrom(s, p) ==
    CHOOSE parts \in
        {IF q > Len(s) THEN <<SubSeq(s, p, Len(s))>>
         ELSE <<SubSeq(s, p, q - 1)>> \o SplitFrom(s, q + 1) :
            q \in {p + RunNotIn(s, p, {"\n"})}} : TRUE

Split(s) == SplitFrom(s, 1)

(***************************************************************************)
(* The regular expressions of parseTasksFile.                              *)
(***************************************************************************)
PhaseLit == <<"#", "#", " ", "P", "h", "a", "s", "e", " ">>

\* line.match(/^## (Phase \d+): (.+)/)
PhaseMatch(line) ==
    IF ~LitAt(line, 1, PhaseLit) THEN Null
    ELSE LET d == RunIn(line, 10, Digits)
             q == 10 + d
             r == RunNotIn(line, q + 2, LineTerminators)
         IN  IF d = 0 \/ ~LitAt(line, q, <<":", " ">>) \/ r = 0 THEN Null
             ELSE [type |-> "match",
                   g1 |-> SubSeq(line, 4, q - 1),
                   g2 |-> SubSeq(line, q + 2, q + 1 + r)]

\* line.match(/^- \[([ xX])\] (T\d+)(.+)/): \d+ is greedy and gives digits
\* back until (.+) has a character to match
TaskMatch(line) ==
    IF ~(/\ LitAt(line, 1, <<"-", " ", "[">>)
         /\ Len(line) >= 4 /\ line[4] \in {" ", "x", "X"}
         /\ LitAt(line, 5, <<"]", " ", "T">>))
    THEN Null
    ELSE LET d == RunIn(line, 8, Digits)
             ok == {k \in 1..d : RunNotIn(line, 8 + k, LineTerminators) > 0}
         IN  IF ok = {} THEN Null
             ELSE LET k == CHOOSE n \in ok : \A m \in ok : m <= n
                      r == RunNotIn(line, 8 + k, LineTerminators)
                  IN  [type |-> "match",
                       g1 |-> <<line[4]>>,
                       g2 |-> SubSeq(line, 7, 7 + k),
                       g3 |-> SubSeq(line, 8 + k, 7 + k + r)]

\* length of the match of /\[P\]/ (kind "P") or /\[US\d+\]/ (kind "US")
\* that starts at position p, 0 when there is none
TagLenAt(s, p, kind) ==
    IF kind = "P"
    THEN IF LitAt(s, p, <<"[", "P", "]">>) THEN 3 ELSE 0
    ELSE IF ~LitAt(s, p, <<"[", "U", "S">>) THEN 0
         ELSE LET d == RunIn(s, p + 3, Digits)
              IN  IF d > 0 /\ LitAt(s, p + 3 + d, <<"]">>) THEN d + 4 ELSE 0

\* first position from p on where a match of the tag pattern starts,
\* Len(s) + 1 when there is none
FirstTagFrom(s, p, kind) ==
    IF \E q \in p..Len(s) : TagLenAt(s, q, kind) > 0
    THEN CHOOSE q \in p..Len(s) :
            /\ TagLenAt(s, q, kind) > 0
            /\ \A r \in p..(q - 1) : TagLenAt(s, r, kind) = 0
    ELSE Len(s) + 1

\* str.match(/\[US\d+\]/): the leftmost match, or null
StoryMatch(str) ==
    CHOOSE storyMatch \in
        {IF sp[2] > Len(sp[1]) THEN Null
         ELSE [type |-> "match",
               g0 |-> SubSeq(sp[1], sp[2], sp[2] + TagLenAt(sp[1], sp[2], "US") - 1)] :
            sp \in {<<s, FirstTagFrom(s, 1, "US")>> : s \in {str}}} : TRUE

\* s.replace(/<tag>/g, '') from position p on: one left-to-right pass; the
\* text before the next match m is kept, the match is dropped and the scan
\* resumes after it
RECURSIVE ReplaceFrom(_, _, _)
ReplaceFrom(s, p, kind) ==
    CHOOSE replaced \in
        {IF m > Len(s) THEN SubSeq(s, p, Len(s))
         ELSE SubSeq(s, p, m - 1) \o ReplaceFrom(s, m + TagLenAt(s, m, kind), kind) :
            m \in {FirstTagFrom(s, p, kind)}} : TRUE

\* str.replace(/<tag>/g, '')
ReplaceAll(str, kind) ==
    CHOOSE replaced \in {ReplaceFrom(s, 1, kind) : s \in {str}} : TRUE

(***************************************************************************)
(* TaskItem and the body of the task branch of parseTasksFile.             *)
(***************************************************************************)
\* vscode.TreeItemCollapsibleState
None == 0
Collapsed == 1

\* Selection counting lines from one
Selection_oneBased(lineNumber) == <<lineNumber + 1, 0, lineNumber + 1, 0>>

\* new vscode.Range(taskData.lineNumber, 0, taskData.lineNumber, 0): start
\* line, start character, end line, end character
Selection(lineNumber) == <<lineNumber, 0, lineNumber, 0>>

\* new TaskItem(label, filePath, type, collapsibleState, taskData); tasks is
\* the array a phase item refers to, 0 while the property is not set
TaskItem(label, filePath, type, collapsibleState, taskData) ==
    [label |-> label,
     collapsibleState |-> collapsibleState,
     type |-> type,
     filePath |-> filePath,
     taskData |-> taskData,
     contextValue |-> type,
     command |-> IF type = "task" /\ taskData # Null
                 THEN [command |-> "vscode.open",
                       uri |-> filePath,
                       selection |-> Selection(taskData.lineNumber)]
                 ELSE Null,
     tasks |-> 0]

\* CleanDesc without the final trim
CleanDesc_noTrim(description) ==
    CHOOSE cleanDesc \in
        {ReplaceAll(noParallel, "US") :
            noParallel \in {ReplaceAll(description, "P")}} : TRUE

\* description.replace(/\[P\]/g, '').replace(/\[US\d+\]/g, '').trim(); each
\* intermediate string is bound to a name as a value
CleanDesc(description) ==
    CHOOSE cleanDesc \in
        {Trim(noStory) :
            noStory \in {ReplaceAll(noParallel, "US") :
                noParallel \in {ReplaceAll(description, "P")}}} : TRUE

\* Truncate keeping 80 characters in front of the ellipsis
Truncate_keep80(cleanDesc) ==
    IF Len(cleanDesc) > 80
    THEN Substring(cleanDesc, 0, 80) \o <<".", ".", ".">>
    ELSE cleanDesc

\* if (cleanDesc.length > 80) cleanDesc = cleanDesc.substring(0, 77) + '...'
Truncate(cleanDesc) ==
    IF Len(cleanDesc) > 80
    THEN Substring(cleanDesc, 0, 77) \o <<".", ".", ".">>
    ELSE cleanDesc

\* IsCompleted comparing the marker with 'x' as it is
IsCompleted_caseSensitive(marker) == marker = <<"x">>

\* taskMatch[1].toLowerCase() === 'x'
IsCompleted(marker) == ToLowerCase(marker) = <<"x">>

\* HasParallel looking for the tag at the start of the description only
HasParallel_atStart(description) == LitAt(description, 1, <<"[", "P", "]">>)

\* description.includes('[P]')
HasParallel(description) == Includes(description, <<"[", "P", "]">>)

\* Story taking the last match of the story pattern
Story_last(description) ==
    LET tags == {p \in 1..Len(description) : TagLenAt(description, p, "US") > 0}
    IN  IF tags = {} THEN <<>>
        ELSE LET p == CHOOSE q \in tags : \A r \in tags : r <= q
             IN  SubSeq(description, p, p + TagLenAt(description, p, "US") - 1)

\* const storyMatch = description.match(/\[US\d+\]/);
\* const story = storyMatch ? storyMatch[0] : ''
Story(description) ==
    IF StoryMatch(description) # Null THEN StoryMatch(description).g0 ELSE <<>>

\* the taskData object built from a match of the task pattern on line i
TaskData(taskMatch, i) ==
    CHOOSE taskData \in
        {[taskId |-> taskMatch.g2,
          description |-> Truncate(dc[2]),
          isCompleted |-> IsCompleted(taskMatch.g1),
          hasParallel |-> HasParallel(dc[1]),
          story |-> Story(dc[1]),
          lineNumber |-> i] :
            dc \in {<<description, CleanDesc(description)>> :
                      description \in {Trim(taskMatch.g3)}}} : TRUE

\* the label of a task item: `${icon} ${label}` with
\* label = `${taskId} ${story} ${cleanDesc}`.trim()
TaskLabel(taskData) ==
    LET label == Trim(taskData.taskId \o <<" ">> \o taskData.story \o <<" ">>
                      \o taskData.description)
        icon == IF taskData.isCompleted THEN "CHECK"
                ELSE IF taskData.hasParallel THEN "BOLT" ELSE "CIRCLE"
    IN  <<icon, " ">> \o label

\* TaskGuard testing the open phase only
TaskGuard_noMatchCheck(taskMatch, phase) == phase # Null

\* if (taskMatch && currentPhase)
TaskGuard(taskMatch, phase) == taskMatch # Null /\ phase # Null

(***************************************************************************)
(* State.                                                                  *)
(***************************************************************************)
VARIABLES
    workspace,      \* the workspace folder, specs/ and its sub-directories
    pc,             \* position in getChildren / findTasksFiles / parseTasksFile
    root,           \* what getChildren(undefined) returned last
    children,       \* what getChildren(element) returned last
    heap,           \* the task arrays allocated by parseTasksFile
    allPhases,      \* findTasksFiles: phases
    featureIdx,     \* findTasksFiles: position in features (one-based)
    filePath,       \* parseTasksFile: filePath
    lines,          \* parseTasksFile: lines
    i,              \* parseTasksFile: i
    phases,         \* parseTasksFile: phases
    currentPhase,   \* parseTasksFile: currentPhase
    currentTasks,   \* parseTasksFile: currentTasks, an index of heap
    visited,        \* history: the line indices the loop body has run for
    parseLog        \* history: text and result of every finished parse

\* runWorkflowStep, copySetupFiles and the files they work on
VARIABLES
    wpc,            \* position in runWorkflowStep
    step,           \* runWorkflowStep: step.id
    userInput,      \* runWorkflowStep: userInput
    clipboard,      \* the text of the clipboard
    messages,       \* the messages shown since runWorkflowStep, implementPhase
                    \* or verifyPhase was called last
    chat,           \* whether the chat panel has been opened
    choice,         \* runWorkflowStep: choice
    rpc,            \* position in runAllTasks
    runAllChoice,   \* runAllTasks: choice
    setup,          \* the setup/ directory of the extension
    files,          \* the directories and files of the workspace folder
    dirIdx,         \* copySetupFiles: position in directories (one-based)
    copiedFiles,    \* copySetupFiles: copiedFiles
    initLog         \* history: the files before the last copy started

\* implementPhase and verifyPhase
VARIABLES
    ppc,            \* position in implementPhase / verifyPhase
    phaseItem,      \* implementPhase, verifyPhase: phaseItem
    completedTasks, \* verifyPhase: completedTasks
    incompleteTasks,\* implementPhase, verifyPhase: incompleteTasks
    confirm,        \* implementPhase: confirm
    query           \* the query the chat panel was last opened with

runAllVars == <<rpc, runAllChoice>>

workflowVars == <<wpc, step, userInput, clipboard, messages, chat, choice, setup,
                  files, dirIdx, copiedFiles, initLog, runAllVars>>

phaseVars == <<ppc, phaseItem, completedTasks, incompleteTasks, confirm, query>>

vars == <<workspace, pc, root, children, heap, allPhases, featureIdx, filePath,
          lines, i, phases, currentPhase, currentTasks, visited, parseLog,
          workflowVars, phaseVars>>

findVars == <<allPhases, featureIdx>>
parseVars == <<filePath, lines, i, phases, currentPhase, currentTasks, visited>>

\* path.join(specsPath, feature, 'tasks.md') of the k-th entry of specs/
TasksPath(k) == <<"specs", ToString(k), "tasks.md">>

\* element.tasks || [] : the array a phase item refers to
TasksOf(h, element) == IF element.tasks = 0 THEN <<>> ELSE h[element.tasks]

\* the phases of a result with their task arrays read from the heap and the
\* file path left out
Shape(h, ps) ==
    [k \in 1..Len(ps) |->
        [label |-> ps[k].label,
         type |-> ps[k].type,
         tasks |-> [n \in 1..Len(TasksOf(h, ps[k])) |->
                       [label |-> TasksOf(h, ps[k])[n].label,
                        type |-> TasksOf(h, ps[k])[n].type,
                        taskData |-> TasksOf(h, ps[k])[n].taskData]]]]

(***************************************************************************)
(* getChildren(undefined) -> findTasksFiles                                *)
(***************************************************************************)
\* no workspace folder: return []
FindNoFolder ==
    /\ pc = "idle"
    /\ ~workspace.folder
    /\ root' = <<>>
    /\ pc' = "shown"
    /\ UNCHANGED <<phaseVars, workflowVars, workspace, children, heap, findVars, parseVars, parseLog>>

\* no specs/ directory: return the 'No specs/ folder found' item
FindNoSpecs ==
    /\ pc = "idle"
    /\ workspace.folder /\ ~workspace.specs
    /\ root' = <<TaskItem(<<"No specs/ folder found">>, <<>>, "info", None, Null)>>
    /\ pc' = "shown"
    /\ UNCHANGED <<phaseVars, workflowVars, workspace, children, heap, findVars, parseVars, parseLog>>

\* const phases = []; const features = fs.readdirSync(specsPath)
FindStart ==
    /\ pc = "idle"
    /\ workspace.folder /\ workspace.specs
    /\ allPhases' = <<>>
    /\ featureIdx' = 1
    /\ heap' = <<>>
    /\ pc' = "features"
    /\ UNCHANGED <<phaseVars, workflowVars, workspace, root, children, parseVars, parseLog>>

\* a feature directory without tasks.md is passed over
SkipFeature ==
    /\ pc = "features"
    /\ featureIdx <= Len(workspace.features)
    /\ ~workspace.features[featureIdx].tasksMd
    /\ featureIdx' = featureIdx + 1
    /\ UNCHANGED <<phaseVars, workflowVars, workspace, pc, root, children, heap, allPhases, parseVars, parseLog>>

\* ParseStart with currentPhase and currentTasks kept in the provider
\* instead of declared in the function
ParseStart_carry ==
    /\ pc = "features"
    /\ featureIdx <= Len(workspace.features)
    /\ workspace.features[featureIdx].tasksMd
    /\ filePath' = TasksPath(featureIdx)
    /\ lines' = Split(workspace.features[featureIdx].content)
    /\ phases' = <<>>
    /\ heap' = IF currentTasks = 0 \/ currentTasks > Len(heap)
               THEN Append(heap, <<>>) ELSE heap
    /\ currentTasks' = IF currentTasks = 0 \/ currentTasks > Len(heap)
                       THEN Len(heap) + 1 ELSE currentTasks
    /\ i' = 0
    /\ visited' = <<>>
    /\ pc' = "scan"
    /\ UNCHANGED <<phaseVars, workflowVars, workspace, root, children, findVars, currentPhase, parseLog>>

\* parseTasksFile(tasksPath) up to the loop: the file is read and split,
\* phases, currentPhase and currentTasks are fresh
ParseStart ==
    /\ pc = "features"
    /\ featureIdx <= Len(workspace.features)
    /\ workspace.features[featureIdx].tasksMd
    /\ filePath' = TasksPath(featureIdx)
    /\ lines' = Split(workspace.features[featureIdx].content)
    /\ phases' = <<>>
    /\ currentPhase' = Null
    /\ heap' = Append(heap, <<>>)
    /\ currentTasks' = Len(heap) + 1
    /\ i' = 0
    /\ visited' = <<>>
    /\ pc' = "scan"
    /\ UNCHANGED <<phaseVars, workflowVars, workspace, root, children, findVars, parseLog>>

\* WithCurrent putting the phase in front (unshift for push)
WithCurrent_front(ps, phase, tasks) ==
    IF phase # Null THEN <<[phase EXCEPT !.tasks = tasks]>> \o ps ELSE ps

\* WithCurrent collecting what precedes the first header in a phase of its own
WithCurrent_synthetic(ps, phase, tasks) ==
    IF phase # Null THEN Append(ps, [phase EXCEPT !.tasks = tasks])
    ELSE Append(ps, [TaskItem(<<>>, <<>>, "phase", 1, Null) EXCEPT !.tasks = tasks])

\* phases with currentPhase appended when one is open, its tasks property
\* set to the current task array
WithCurrent(ps, phase, tasks) ==
    IF phase # Null THEN Append(ps, [phase EXCEPT !.tasks = tasks]) ELSE ps

\* NewTasks emptying the old array in place (currentTasks.length = 0)
NewTasks_clear(h, old) == [heap |-> [h EXCEPT ![old] = <<>>], ref |-> old]

\* NewTasks with the assignment left out: the old array stays in use
NewTasks_reuse(h, old) == [heap |-> h, ref |-> old]

\* currentTasks = [] : a new array on the heap; old is the array
\* currentTasks referred to before
NewTasks(h, old) == [heap |-> Append(h, <<>>), ref |-> Len(h) + 1]

\* loop body, line matches the phase header pattern
ScanPhase ==
    /\ pc = "scan"
    /\ i < Len(lines)
    /\ LET phaseMatch == PhaseMatch(lines[i + 1])
       IN  /\ phaseMatch # Null
           /\ phases' = WithCurrent(phases, currentPhase, currentTasks)
           /\ currentPhase' = TaskItem(phaseMatch.g1 \o <<":", " ">> \o phaseMatch.g2,
                                       filePath, "phase", Collapsed, Null)
           /\ heap' = NewTasks(heap, currentTasks).heap
           /\ currentTasks' = NewTasks(heap, currentTasks).ref
    /\ visited' = Append(visited, i)
    /\ i' = i + 1
    /\ UNCHANGED <<phaseVars, workflowVars, workspace, pc, root, children, findVars, filePath, lines, parseLog>>

\* PushTask keeping one task per id
PushTask_unique(tasks, item) ==
    IF \E k \in 1..Len(tasks) : tasks[k].taskData.taskId = item.taskData.taskId
    THEN tasks
    ELSE Append(tasks, item)

\* currentTasks.push(taskItem)
PushTask(tasks, item) == Append(tasks, item)

\* ScanTask making the task items without taskData
ScanTask_noData ==
    /\ pc = "scan"
    /\ i < Len(lines)
    /\ PhaseMatch(lines[i + 1]) = Null
    /\ \E taskMatch \in {TaskMatch(lines[i + 1])} :
           /\ TaskGuard(taskMatch, currentPhase)
           /\ IF taskMatch = Null
              THEN /\ pc' = "error"
                   /\ UNCHANGED <<heap, i, visited>>
              ELSE /\ \E taskData \in {TaskData(taskMatch, i)} :
                          heap' = [heap EXCEPT ![currentTasks] =
                                      PushTask(@, TaskItem(TaskLabel(taskData), filePath,
                                                           "task", None, Null))]
                   /\ visited' = Append(visited, i)
                   /\ i' = i + 1
                   /\ pc' = pc
    /\ UNCHANGED <<phaseVars, workflowVars, workspace, root, children, findVars, filePath, lines, phases,
                   currentPhase, currentTasks, parseLog>>

\* loop body, the task branch is entered; reading a group of a null match
\* is a TypeError
ScanTask ==
    /\ pc = "scan"
    /\ i < Len(lines)
    /\ PhaseMatch(lines[i + 1]) = Null
    /\ \E taskMatch \in {TaskMatch(lines[i + 1])} :
           /\ TaskGuard(taskMatch, currentPhase)
           /\ IF taskMatch = Null
              THEN /\ pc' = "error"
                   /\ UNCHANGED <<heap, i, visited>>
              ELSE /\ \E taskData \in {TaskData(taskMatch, i)} :
                          heap' = [heap EXCEPT ![currentTasks] =
                                      PushTask(@, TaskItem(TaskLabel(taskData), filePath,
                                                           "task", None, taskData))]
                   /\ visited' = Append(visited, i)
                   /\ i' = i + 1
                   /\ pc' = pc
    /\ UNCHANGED <<phaseVars, workflowVars, workspace, root, children, findVars, filePath, lines, phases,
                   currentPhase, currentTasks, parseLog>>

\* loop body, neither branch is taken
ScanOther ==
    /\ pc = "scan"
    /\ i < Len(lines)
    /\ PhaseMatch(lines[i + 1]) = Null
    /\ ~TaskGuard(TaskMatch(lines[i + 1]), currentPhase)
    /\ visited' = Append(visited, i)
    /\ i' = i + 1
    /\ UNCHANGED <<phaseVars, workflowVars, workspace, pc, root, children, heap, findVars, filePath, lines,
                   phases, currentPhase, currentTasks, parseLog>>

\* one iteration of the loop over lines
ScanStep == ScanPhase \/ ScanTask \/ ScanOther

\* AddLastPhase with the block after the loop left out
AddLastPhase_dropped(ps, phase, tasks) == ps

\* after the loop: if (currentPhase) { currentPhase.tasks = currentTasks;
\* phases.push(currentPhase) }
AddLastPhase(ps, phase, tasks) == WithCurrent(ps, phase, tasks)

\* after the loop: the last phase is added, the phases are returned and
\* findTasksFiles pushes them onto its own list
ParseEnd ==
    /\ pc = "scan"
    /\ i >= Len(lines)
    /\ LET result == AddLastPhase(phases, currentPhase, currentTasks)
       IN  /\ phases' = result
           /\ allPhases' = allPhases \o result
           /\ parseLog' = parseLog \cup {[text |-> lines, shape |-> Shape(heap, result)]}
    /\ featureIdx' = featureIdx + 1
    /\ pc' = "features"
    /\ UNCHANGED <<phaseVars, workflowVars, workspace, root, children, heap, filePath, lines, i, currentPhase,
                   currentTasks, visited>>

\* FindEnd putting the 'No tasks found' item after the phases in every case
FindEnd_withPlaceholder ==
    /\ pc = "features"
    /\ featureIdx > Len(workspace.features)
    /\ root' = Append(allPhases,
                      TaskItem(<<"No tasks found">>, <<>>, "info", None, Null))
    /\ pc' = "shown"
    /\ UNCHANGED <<phaseVars, workflowVars, workspace, children, heap, findVars, parseVars, parseLog>>

\* return phases.length > 0 ? phases : [the 'No tasks found' item]
FindEnd ==
    /\ pc = "features"
    /\ featureIdx > Len(workspace.features)
    /\ root' = IF Len(allPhases) > 0 THEN allPhases
               ELSE <<TaskItem(<<"No tasks found">>, <<>>, "info", None, Null)>>
    /\ pc' = "shown"
    /\ UNCHANGED <<phaseVars, workflowVars, workspace, children, heap, findVars, parseVars, parseLog>>

(***************************************************************************)
(* getChildren(element) and refresh()                                      *)
(***************************************************************************)
GetChildren(element) ==
    /\ pc = "shown"
    /\ children' = IF element.type = "phase" THEN TasksOf(heap, element) ELSE <<>>
    /\ UNCHANGED <<phaseVars, workflowVars, workspace, pc, root, heap, findVars, parseVars, parseLog>>

\* the tree is asked for its root again
Refresh ==
    /\ pc = "shown"
    /\ pc' = "idle"
    /\ root' = <<>>
    /\ children' = <<>>
    /\ UNCHANGED <<phaseVars, workflowVars, workspace, heap, findVars, parseVars, parseLog>>

Next ==
    \/ FindNoFolder
    \/ FindNoSpecs
    \/ FindStart
    \/ SkipFeature
    \/ ParseStart
    \/ ScanPhase
    \/ ScanTask
    \/ ScanOther
    \/ ParseEnd
    \/ FindEnd
    \/ \E k \in 1..Len(root) : GetChildren(root[k])
    \/ Refresh

(***************************************************************************)
(* Directories and files.  A path is a sequence of names below the root   *)
(* it is taken in; a tree is the set of its directories and the content   *)
(* of each of its files; a content is a sequence of tokens.                *)
(***************************************************************************)
NoFiles == [p \in {} |-> <<>>]

EmptyTree == [dirs |-> {}, files |-> NoFiles]

\* path.join(dir, name)
PathJoin(dir, name) == Append(dir, name)

IsPrefix(p, q) == Len(p) <= Len(q) /\ SubSeq(q, 1, Len(p)) = p

\* fs.existsSync(path)
ExistsSync(tree, path) == path \in tree.dirs \/ path \in DOMAIN tree.files

\* fs.mkdirSync(path, { recursive: true })
MkdirSync(tree, path) ==
    [tree EXCEPT !.dirs = @ \cup {SubSeq(path, 1, n) : n \in 1..Len(path)}]

\* fs.readdirSync(dir, { withFileTypes: true }): the entries of dir, each
\* as its path
ReaddirSync(tree, dir) ==
    {p \in tree.dirs \cup DOMAIN tree.files : Len(p) = Len(dir) + 1 /\ IsPrefix(dir, p)}

\* fs.writeFileSync(path, content)
WriteFileSync(tree, path, content) ==
    [tree EXCEPT !.files = [q \in DOMAIN @ \cup {path} |->
                               IF q = path THEN content ELSE @[q]]]

\* fs.copyFileSync(src, dest)
CopyFileSync(srcTree, src, tree, dest) == WriteFileSync(tree, dest, srcTree.files[src])

\* copyDirectoryRecursive(source, dest): the destination directory is made
\* when it is missing, then every entry of the source is copied, a
\* directory by the function itself and a file by copyFileSync
RECURSIVE CopyDirectoryRecursive(_, _, _, _)
RECURSIVE CopyEntries(_, _, _, _)
CopyEntries(srcTree, entries, tree, dest) ==
    IF entries = {} THEN tree
    ELSE LET entry == CHOOSE e \in entries : TRUE
             destPath == PathJoin(dest, entry[Len(entry)])
             copied == IF entry \in srcTree.dirs
                       THEN CopyDirectoryRecursive(srcTree, entry, tree, destPath)
                       ELSE CopyFileSync(srcTree, entry, tree, destPath)
         IN  CopyEntries(srcTree, entries \ {entry}, copied, dest)

\* CopyDirectoryRecursive emptying the destination directory first
CopyDirectoryRecursive_clean(srcTree, source, tree, dest) ==
    CopyEntries(srcTree, ReaddirSync(srcTree, source),
                MkdirSync([dirs |-> {p \in tree.dirs : ~IsPrefix(dest, p)},
                           files |-> [q \in {r \in DOMAIN tree.files : ~IsPrefix(dest, r)}
                                        |-> tree.files[q]]],
                          dest),
                dest)

CopyDirectoryRecursive(srcTree, source, tree, dest) ==
    CopyEntries(srcTree, ReaddirSync(srcTree, source),
                IF ~ExistsSync(tree, dest) THEN MkdirSync(tree, dest) ELSE tree,
                dest)

(***************************************************************************)
(* JSON.  The tokens of a settings file: braces, commas, line ends,       *)
(* "key": value pairs, the literal null, comments and other text.         *)
(***************************************************************************)
LBrace == <<"{">>
RBrace == <<"}">>
Comma == <<",">>
Newline == <<"\n">>
NullLit == <<"null">>
BlockComment == <<"/*c*/">>
LineComment == <<"//c">>
Pair(key, value) == <<"pair", key, value>>

IsPair(token) == Len(token) = 3 /\ token[1] = "pair"

Thrown == [type |-> "thrown"]

\* the elements of s at the positions that satisfy Keep, in order
KeepAt(s, kept) ==
    LET Keep(n) == n \in kept
        idx == SelectSeq([n \in 1..Len(s) |-> n], Keep)
    IN  [k \in 1..Len(idx) |-> s[idx[k]]]

\* content.replace(/\/\*[\s\S]*?\*\/|\/\/.*/g, ''): block comments go, and
\* a line comment goes with the rest of its line
StripComments(content) ==
    KeepAt(content,
           {n \in 1..Len(content) :
               /\ content[n] # BlockComment
               /\ ~\E m \in 1..n :
                     /\ content[m] = LineComment
                     /\ \A j \in m..n : content[j] # Newline})

\* the object of a sequence of pairs: a key stands where it comes first
\* and has the value given last
ObjectOf(pairs) ==
    LET first == {n \in 1..Len(pairs) :
                     \A m \in 1..(n - 1) : pairs[m][2] # pairs[n][2]}
        LastValue(key) ==
            pairs[CHOOSE n \in 1..Len(pairs) :
                     /\ pairs[n][2] = key
                     /\ \A m \in (n + 1)..Len(pairs) : pairs[m][2] # key][3]
        keys == KeepAt(pairs, first)
    IN  [type |-> "object",
         pairs |-> [k \in 1..Len(keys) |-> Pair(keys[k][2], LastValue(keys[k][2]))]]

\* JSON.parse(content): white space is skipped; the text is null, or an
\* object of pairs separated by commas; anything else throws
JsonParse(content) ==
    LET toks == KeepAt(content, {n \in 1..Len(content) : content[n] # Newline})
        inner == SubSeq(toks, 2, Len(toks) - 1)
    IN  IF toks = <<NullLit>> THEN Null
        ELSE IF /\ Len(toks) >= 2
                /\ toks[1] = LBrace
                /\ toks[Len(toks)] = RBrace
                /\ (inner = <<>> \/ Len(inner) % 2 = 1)
                /\ \A n \in 1..Len(inner) :
                      IF n % 2 = 1 THEN IsPair(inner[n]) ELSE inner[n] = Comma
             THEN ObjectOf(KeepAt(inner, {n \in 1..Len(inner) : n % 2 = 1}))
             ELSE Thrown

\* the pairs an object spread takes from a value: none from null
OwnPairs(value) == IF value = Null THEN <<>> ELSE value.pairs

\* SpreadMerge with the spreads in the other order
SpreadMerge_destLast(destJson, sourceJson) ==
    ObjectOf(OwnPairs(sourceJson) \o OwnPairs(destJson))

\* { ...destJson, ...sourceJson }
SpreadMerge(destJson, sourceJson) ==
    ObjectOf(OwnPairs(destJson) \o OwnPairs(sourceJson))

\* JSON.stringify(object, null, 4): `{}` for no key, else one pair a line
JsonStringify(object) ==
    IF object.pairs = <<>> THEN <<LBrace, RBrace>>
    ELSE <<LBrace>>
         \o [n \in 1..(3 * Len(object.pairs) - 1) |->
                IF n % 3 = 1 THEN Newline
                ELSE IF n % 3 = 2 THEN object.pairs[(n + 1) \div 3]
                ELSE Comma]
         \o <<Newline, RBrace>>

(***************************************************************************)
(* copyVSCodeSettings and the workflow steps.                              *)
(***************************************************************************)
SettingsFile == "settings.json"

\* the try block of copyVSCodeSettings: the existing file is parsed, merged
\* with the bundled settings and written; when that throws, a warning is
\* shown
MergeSettings(srcTree, sourceSettings, sourceJson, tree, destSettings) ==
    LET destJson == JsonParse(tree.files[destSettings])
    IN  IF destJson = Thrown
        THEN [tree |-> tree, warned |-> TRUE]
        ELSE [tree |-> WriteFileSync(tree, destSettings,
                                     JsonStringify(SpreadMerge(destJson, sourceJson))),
              warned |-> FALSE]

\* copyVSCodeSettings(sourcePath, destPath): the workspace afterwards and
\* whether the warning was shown
CopyVSCodeSettings(srcTree, sourcePath, tree, destPath) ==
    LET sourceSettings == PathJoin(sourcePath, SettingsFile)
        destSettings == PathJoin(destPath, SettingsFile)
        made == IF ~ExistsSync(tree, destPath) THEN MkdirSync(tree, destPath) ELSE tree
        sourceJson == JsonParse(StripComments(srcTree.files[sourceSettings]))
    IN  IF ~ExistsSync(srcTree, sourceSettings)
        THEN [tree |-> tree, warned |-> FALSE]
        ELSE IF sourceJson = Thrown
        THEN [tree |-> CopyFileSync(srcTree, sourceSettings, made, destSettings),
              warned |-> FALSE]
        ELSE IF ExistsSync(made, destSettings)
        THEN MergeSettings(srcTree, sourceSettings, sourceJson, made, destSettings)
        ELSE [tree |-> CopyFileSync(srcTree, sourceSettings, made, destSettings),
              warned |-> FALSE]

\* the steps of getWorkflowSteps and their needsInput
StepIds == {"init", "constitution", "specify", "plan", "tasks", "implement"}

NeedsInput(id) == id \in {"constitution", "specify", "plan"}

Undefined == [type |-> "undefined"]

StringValue(text) == [type |-> "string", value |-> text]

\* a text is a sequence of pieces: a command is one piece, an input is made
\* of characters
SlashCommand(id) ==
    CASE id = "constitution" -> <<"/speckit.constitution">>
      [] id = "specify" -> <<"/speckit.specify">>
      [] id = "plan" -> <<"/speckit.plan">>
      [] id = "tasks" -> <<"/speckit.tasks">>
      [] id = "implement" -> <<"/speckit.implement">>
      [] OTHER -> <<>>

\* `userInput ?`: undefined and the empty string are falsy
Truthy(input) == input.type = "string" /\ input.value # <<>>

\* FullPrompt without the space between the command and the input
FullPrompt_noSpace(id, input) ==
    IF id \in {"constitution", "specify", "plan"}
    THEN IF Truthy(input) THEN SlashCommand(id) \o input.value ELSE SlashCommand(id)
    ELSE SlashCommand(id)

\* fullPrompt: userInput ? `${command} ${userInput}` : command for
\* constitution, specify and plan, command for tasks and implement; input is
\* Undefined or StringValue(text)
FullPrompt(id, input) ==
    IF id \in {"constitution", "specify", "plan"}
    THEN IF Truthy(input)
         THEN SlashCommand(id) \o <<" ">> \o input.value
         ELSE SlashCommand(id)
    ELSE SlashCommand(id)

Message(kind, text) == [kind |-> kind, text |-> text]

\* const directories = ['.github', '.specify', '.vscode']
Directories == <<".github", ".specify", ".vscode">>

treeVars == <<workspace, pc, root, children, heap, allPhases, featureIdx, filePath,
              lines, i, phases, currentPhase, currentTasks, visited, parseLog>>

\* runWorkflowStep(stepItem) up to its first await: let userInput = '', and
\* the choice of this call is not yet bound
RunWorkflowStep(id) ==
    /\ wpc = "idle"
    /\ step' = id
    /\ userInput' = StringValue(<<>>)
    /\ choice' = "none"
    /\ messages' = {}
    /\ wpc' = IF NeedsInput(id) /\ id # "init" THEN "input" ELSE "execute"
    /\ UNCHANGED <<phaseVars, runAllVars, treeVars, clipboard, chat, setup, files,
                   dirIdx, copiedFiles, initLog>>

\* ShowInputBox that goes on when the user cancels
ShowInputBox_noCancel(input) ==
    /\ wpc = "input"
    /\ userInput' = input
    /\ wpc' = "execute"
    /\ UNCHANGED <<phaseVars, runAllVars, treeVars, step, clipboard, messages, chat,
                   choice, setup, files, dirIdx, copiedFiles, initLog>>

\* showInputBox resolves, with undefined when the user cancels: input is
\* Undefined or StringValue(text)
ShowInputBox(input) ==
    /\ wpc = "input"
    /\ userInput' = input
    /\ wpc' = IF input = Undefined THEN "idle" ELSE "execute"
    /\ UNCHANGED <<phaseVars, runAllVars, treeVars, step, clipboard, messages, chat,
                   choice, setup, files, dirIdx, copiedFiles, initLog>>

\* init: no workspace folder, or .specify exists and the user is asked, or
\* the copy starts
InitStep ==
    /\ wpc = "execute"
    /\ step = "init"
    /\ IF ~workspace.folder
       THEN /\ messages' = messages \cup {Message("error", "No workspace folder open")}
            /\ wpc' = "idle"
       ELSE /\ wpc' = IF ExistsSync(files, <<".specify">>) THEN "choice" ELSE "copy"
            /\ UNCHANGED messages
    /\ UNCHANGED <<phaseVars, runAllVars, treeVars, step, userInput, clipboard, chat,
                   choice, setup, files, dirIdx, copiedFiles, initLog>>

\* AlreadyInitialized that copies unless the answer is 'Open .specify/'
AlreadyInitialized_copyOnCancel(answer) ==
    /\ wpc = "choice"
    /\ choice' = answer
    /\ IF answer = "Open .specify/"
       THEN /\ messages' = messages \cup {Message("reveal", ".specify")}
            /\ wpc' = "idle"
       ELSE wpc' = "copy" /\ UNCHANGED messages
    /\ UNCHANGED <<phaseVars, runAllVars, treeVars, step, userInput, clipboard, chat,
                   setup, files, dirIdx, copiedFiles, initLog>>

\* the answer to 'Spec-Kit already initialized!'
AlreadyInitialized(answer) ==
    /\ wpc = "choice"
    /\ choice' = answer
    /\ IF answer = "Open .specify/"
       THEN /\ messages' = messages \cup {Message("reveal", ".specify")}
            /\ wpc' = "idle"
       ELSE IF answer = "Reinitialize"
       THEN wpc' = "copy" /\ UNCHANGED messages
       ELSE wpc' = "idle" /\ UNCHANGED messages
    /\ UNCHANGED <<phaseVars, runAllVars, treeVars, step, userInput, clipboard, chat,
                   setup, files, dirIdx, copiedFiles, initLog>>

\* CopySetupFiles without the check that setup/ exists
CopySetupFiles_noCheck ==
    /\ wpc = "copy"
    /\ initLog' = files
    /\ messages' = messages \cup {Message("info", "Initializing Spec-Kit...")}
    /\ copiedFiles' = 0
    /\ dirIdx' = 1
    /\ wpc' = "directories"
    /\ UNCHANGED <<phaseVars, runAllVars, treeVars, step, userInput, clipboard, chat,
                   choice, setup, files>>

\* the try block up to the loop of copySetupFiles; a missing setup/ throws
\* and the catch block shows the error
CopySetupFiles ==
    /\ wpc = "copy"
    /\ initLog' = files
    /\ IF ~setup.exists
       THEN /\ messages' = messages \cup
                  {Message("info", "Initializing Spec-Kit..."),
                   Message("error", "Failed to initialize Spec-Kit")}
            /\ wpc' = "idle"
            /\ UNCHANGED <<dirIdx, copiedFiles>>
       ELSE /\ messages' = messages \cup {Message("info", "Initializing Spec-Kit...")}
            /\ copiedFiles' = 0
            /\ dirIdx' = 1
            /\ wpc' = "directories"
    /\ UNCHANGED <<phaseVars, runAllVars, treeVars, step, userInput, clipboard, chat,
                   choice, setup, files>>

\* one iteration of the loop over directories
CopyDirectory ==
    /\ wpc = "directories"
    /\ dirIdx <= Len(Directories)
    /\ LET dir == Directories[dirIdx]
       IN  IF ~ExistsSync(setup.tree, <<dir>>)
           THEN UNCHANGED <<files, copiedFiles, messages>>
           ELSE IF dir = ".vscode"
           THEN LET copied == CopyVSCodeSettings(setup.tree, <<dir>>, files, <<dir>>)
                IN  /\ files' = copied.tree
                    /\ messages' =
                          IF copied.warned
                          THEN messages \cup
                                 {Message("warning", "Could not merge .vscode/settings.json")}
                          ELSE messages
                    /\ copiedFiles' = copiedFiles + 1
           ELSE /\ files' = CopyDirectoryRecursive(setup.tree, <<dir>>, files, <<dir>>)
                /\ copiedFiles' = copiedFiles + 1
                /\ UNCHANGED messages
    /\ dirIdx' = dirIdx + 1
    /\ UNCHANGED <<phaseVars, runAllVars, treeVars, wpc, step, userInput, clipboard, chat,
                   choice, setup, initLog>>

\* copySetupFiles returns: the success message is shown and the timer that
\* reveals .specify is set
InitDone ==
    /\ wpc = "directories"
    /\ dirIdx > Len(Directories)
    /\ messages' = messages \cup
           {Message("info", "Spec-Kit initialized successfully!"),
            Message("timer", ".specify")}
    /\ wpc' = "idle"
    /\ UNCHANGED <<phaseVars, runAllVars, treeVars, step, userInput, clipboard, chat,
                   choice, setup, files, dirIdx, copiedFiles, initLog>>

\* the other steps: the prompt is written to the clipboard and the
\* notification is shown
WriteClipboard ==
    /\ wpc = "execute"
    /\ step # "init"
    /\ clipboard' = FullPrompt(step, userInput)
    /\ messages' = messages \cup {Message("info", "Copied to clipboard")}
    /\ wpc' = "notify"
    /\ UNCHANGED <<phaseVars, runAllVars, treeVars, step, userInput, chat, choice, setup,
                   files, dirIdx, copiedFiles, initLog>>

\* Notification that opens the chat panel on 'Done' as well
Notification_openOnDone(answer) ==
    /\ wpc = "notify"
    /\ choice' = answer
    /\ wpc' = IF answer \in {"Open Copilot Chat", "Done"} THEN "chat" ELSE "idle"
    /\ UNCHANGED <<phaseVars, runAllVars, treeVars, step, userInput, clipboard, messages,
                   chat, setup, files, dirIdx, copiedFiles, initLog>>

\* the answer to the notification: on 'Open Copilot Chat' the command
\* workbench.action.chat.open is executed
Notification(answer) ==
    /\ wpc = "notify"
    /\ choice' = answer
    /\ wpc' = IF answer = "Open Copilot Chat" THEN "chat" ELSE "idle"
    /\ UNCHANGED <<phaseVars, runAllVars, treeVars, step, userInput, clipboard, messages,
                   chat, setup, files, dirIdx, copiedFiles, initLog>>

\* workbench.action.chat.open resolves or throws
OpenChat(available) ==
    /\ wpc = "chat"
    /\ IF available
       THEN chat' = TRUE /\ UNCHANGED messages
       ELSE /\ messages' = messages \cup
                  {Message("error", "GitHub Copilot not available")}
            /\ UNCHANGED chat
    /\ wpc' = "idle"
    /\ UNCHANGED <<phaseVars, runAllVars, treeVars, step, userInput, clipboard, choice,
                   setup, files, dirIdx, copiedFiles, initLog>>

runStepVars == <<wpc, step, userInput, choice, setup, files, dirIdx, copiedFiles,
                 initLog>>

\* runAllTasks up to the notification: '/speckit.implement' is written to
\* the clipboard
RunAllTasks ==
    /\ rpc = "idle"
    /\ clipboard' = <<"/speckit.implement">>
    /\ messages' = messages \cup {Message("info", "Copied to clipboard: implement all tasks")}
    /\ runAllChoice' = "none"
    /\ rpc' = "notify"
    /\ UNCHANGED <<phaseVars, treeVars, runStepVars, chat>>

\* the answer to the notification of runAllTasks
RunAllNotification(answer) ==
    /\ rpc = "notify"
    /\ runAllChoice' = answer
    /\ rpc' = IF answer = "Open Copilot Chat" THEN "chat" ELSE "idle"
    /\ UNCHANGED <<phaseVars, treeVars, runStepVars, clipboard, messages, chat>>

\* workbench.action.chat.open of runAllTasks resolves or throws
RunAllOpenChat(available) ==
    /\ rpc = "chat"
    /\ IF available
       THEN chat' = TRUE /\ UNCHANGED messages
       ELSE /\ messages' = messages \cup
                  {Message("error", "GitHub Copilot not available")}
            /\ UNCHANGED chat
    /\ rpc' = "idle"
    /\ UNCHANGED <<phaseVars, treeVars, runStepVars, clipboard, runAllChoice>>

\* the body of the loop of copySetupFiles for one directory, and the loop
\* as a whole: the workspace afterwards
CopyOne(srcTree, dir, tree) ==
    IF ~ExistsSync(srcTree, <<dir>>) THEN tree
    ELSE IF dir = ".vscode"
    THEN CopyVSCodeSettings(srcTree, <<dir>>, tree, <<dir>>).tree
    ELSE CopyDirectoryRecursive(srcTree, <<dir>>, tree, <<dir>>)

CopyAll(srcTree, tree) ==
    CopyOne(srcTree, Directories[3],
            CopyOne(srcTree, Directories[2], CopyOne(srcTree, Directories[1], tree)))

\* the inputs typed into the input box
Inputs == {<<>>, <<"a">>, <<" ">>, <<"a", " ", "b">>}

WorkflowNext ==
    \/ \E id \in StepIds : RunWorkflowStep(id)
    \/ \E input \in {StringValue(text) : text \in Inputs} \cup {Undefined} :
          ShowInputBox(input)
    \/ InitStep
    \/ \E answer \in {"Open .specify/", "Reinitialize", "Cancel", "undefined"} :
          AlreadyInitialized(answer)
    \/ CopySetupFiles
    \/ CopyDirectory
    \/ InitDone
    \/ WriteClipboard
    \/ \E answer \in {"Open Copilot Chat", "Done", "undefined"} : Notification(answer)
    \/ \E available \in BOOLEAN : OpenChat(available)
    \/ RunAllTasks
    \/ \E answer \in {"Open Copilot Chat", "Done", "undefined"} :
          RunAllNotification(answer)
    \/ \E available \in BOOLEAN : RunAllOpenChat(available)

(***************************************************************************)
(* Initial states of the workflow: the setup/ directories the extension   *)
(* may be packaged with and the workspaces it is run in.                   *)
(***************************************************************************)
\* a file of one token
Text(v) == <<<<v>>>>

MergeTrees(a, b) == [dirs |-> a.dirs \cup b.dirs, files |-> a.files @@ b.files]

BundledGithub ==
    [dirs |-> {<<".github">>, <<".github", "agents">>},
     files |-> (<<".github", "agents", "a.md">> :> Text("v2"))]

BundledSpecify ==
    [dirs |-> {<<".specify">>},
     files |-> (<<".specify", "t.md">> :> Text("v2"))]

VscodeDir == [dirs |-> {<<".vscode">>}, files |-> NoFiles]

Settings(content) ==
    [dirs |-> {<<".vscode">>},
     files |-> (<<".vscode", "settings.json">> :> content)]

\* bundled settings with comments, and bundled settings that do not parse
SourceValid ==
    <<LBrace, Newline, BlockComment, Pair("a", "1"), Comma, Pair("c", "1"),
      LineComment, Newline, RBrace>>
SourceBroken == <<LBrace, Pair("a", "1")>>

\* bundled settings on one line, without comments
SourcePlain == <<LBrace, Pair("a", "1"), RBrace>>

\* workspace settings that parse, and workspace settings with a comment
DestValid == <<LBrace, Pair("a", "2"), Comma, Pair("b", "1"), RBrace>>
DestWithComment == <<LBrace, LineComment, Newline, Pair("b", "1"), RBrace>>

NoSetup == [exists |-> FALSE, tree |-> EmptyTree]
Setup(tree) == [exists |-> TRUE, tree |-> tree]

Setups ==
    {NoSetup,
     Setup(MergeTrees(BundledGithub, BundledSpecify)),
     Setup(MergeTrees(MergeTrees(BundledGithub, BundledSpecify), VscodeDir)),
     Setup(MergeTrees(MergeTrees(BundledGithub, BundledSpecify), Settings(SourceValid))),
     Setup(MergeTrees(MergeTrees(BundledGithub, BundledSpecify), Settings(SourceBroken))),
     Setup(MergeTrees(BundledSpecify, Settings(SourcePlain)))}

\* a workspace initialized before, with a file of its own under .specify
OldSpecify ==
    [dirs |-> {<<".specify">>},
     files |-> (<<".specify", "t.md">> :> Text("v1"))
               @@ (<<".specify", "mine.md">> :> Text("v1"))]

WorkspaceFiles ==
    {EmptyTree,
     VscodeDir,
     Settings(DestValid),
     MergeTrees(OldSpecify, Settings(DestValid)),
     MergeTrees(OldSpecify, Settings(DestWithComment))}

InitWorkflowLocals ==
    /\ wpc = "idle"
    /\ step = "init"
    /\ userInput = StringValue(<<>>)
    /\ clipboard = <<>>
    /\ messages = {}
    /\ chat = FALSE
    /\ choice = "none"
    /\ rpc = "idle"
    /\ runAllChoice = "none"
    /\ dirIdx = 1
    /\ copiedFiles = 0
    /\ initLog = EmptyTree

(***************************************************************************)
(* Initial states: the workspaces the tree is asked about.                 *)
(***************************************************************************)
\* lines.join('\n')
RECURSIVE Join(_)
Join(ls) ==
    IF Len(ls) = 0 THEN <<>>
    ELSE IF Len(ls) = 1 THEN ls[1]
    ELSE ls[1] \o <<"\n">> \o Join(Tail(ls))

\* the lines the documents are made of: two phase headers, two task lines
\* and an empty line
LineCatalog ==
    { <<"#", "#", " ", "P", "h", "a", "s", "e", " ", "1", ":", " ", "A">>,
      <<"#", "#", " ", "P", "h", "a", "s", "e", " ", "2", ":", " ", "B">>,
      <<"-", " ", "[", " ", "]", " ", "T", "1", " ", "a">>,
      <<"-", " ", "[", "x", "]", " ", "T", "2", " ", "[", "P", "]", "b">>,
      <<>> }

\* the example document of the task list format
ExampleDoc ==
    <<"#", "#", " ", "P", "h", "a", "s", "e", " ", "1", ":", " ", "S", "e",
      "t", "u", "p", "\n", "-", " ", "[", "x", "]", " ", "T", "0", "0",
      "1", " ", "I", "n", "i", "t", "i", "a", "l", "i", "z", "e", " ",
      "p", "r", "o", "j", "e", "c", "t", " ", "[", "U", "S", "1", "]",
      "\n", "-", " ", "[", " ", "]", " ", "T", "0", "0", "2", " ", "A",
      "d", "d", " ", "l", "i", "n", "t", "i", "n", "g", " ", "[", "P",
      "]", "\n", "#", "#", " ", "P", "h", "a", "s", "e", " ", "2", ":",
      " ", "B", "u", "i", "l", "d", "\n", "-", " ", "[", " ", "]", " ",
      "T", "0", "0", "3", " ", "C", "o", "m", "p", "i", "l", "e", " ",
      "s", "o", "u", "r", "c", "e", "s", " ", "[", "P", "]", "[", "U",
      "S", "2", "]">>

Docs == {Join(ls) : ls \in UNION {[1..n -> LineCatalog] : n \in 0..MaxLines}}

NoTasksMd == [tasksMd |-> FALSE, content |-> <<>>]
TasksMd(content) == [tasksMd |-> TRUE, content |-> content]

NoFolder == [folder |-> FALSE, specs |-> FALSE, features |-> <<>>]
NoSpecs == [folder |-> TRUE, specs |-> FALSE, features |-> <<>>]
Specs(features) == [folder |-> TRUE, specs |-> TRUE, features |-> features]

\* specs/ empty, with one sub-directory without tasks.md, and with the
\* document doc after a sub-directory without tasks.md, before and after
\* the example document
Workspaces(doc) ==
    {Specs(fs) : fs \in {<<>>,
                         <<NoTasksMd>>,
                         <<NoTasksMd, TasksMd(doc)>>,
                         <<TasksMd(doc), TasksMd(ExampleDoc)>>,
                         <<TasksMd(ExampleDoc), TasksMd(doc)>>}}

InitLocals ==
    /\ pc = "idle"
    /\ root = <<>>
    /\ children = <<>>
    /\ heap = <<>>
    /\ allPhases = <<>>
    /\ featureIdx = 1
    /\ filePath = <<>>
    /\ lines = <<>>
    /\ i = 0
    /\ phases = <<>>
    /\ currentPhase = Null
    /\ currentTasks = 0
    /\ visited = <<>>
    /\ parseLog = {}
    /\ ppc = "idle"
    /\ phaseItem = Null
    /\ completedTasks = <<>>
    /\ incompleteTasks = <<>>
    /\ confirm = "none"
    /\ query = <<>>

Init ==
    /\ workspace \in {NoFolder, NoSpecs} \cup UNION {Workspaces(doc) : doc \in Docs}
    /\ InitLocals
    /\ InitWorkflowLocals
    /\ setup = NoSetup
    /\ files = EmptyTree

Spec == Init /\ [][Next]_vars

(***************************************************************************)
(* Initial states of the second specification: one tasks.md whose task     *)
(* line is generated from a prefix, a filler and a sequence of tokens.     *)
(***************************************************************************)
HeaderLine == <<"#", "#", " ", "P", "h", "a", "s", "e", " ", "1", ":", " ", "A">>

\* the start of a task line up to (and into) its id; the last one misses
\* the marker character and matches nothing
Prefixes ==
    { <<"-", " ", "[", " ", "]", " ", "T", "1">>,
      <<"-", " ", "[", "x", "]", " ", "T", "1", "2", " ">>,
      <<"-", " ", "[", "X", "]", " ", "T", "0", "0", "7">>,
      <<"-", " ", "[", "]", " ", "T", "1", " ">> }

BarePrefix == <<"-", " ", "[", " ", "]", " ", "T", "1">>

\* pieces of tags, whole tags, white space and a carriage return
Tokens ==
    { <<"[">>, <<"P", "]">>, <<"[", "P", "]">>, <<"[", "U", "S">>, <<"2", "]">>,
      <<"[", "U", "S", "1", "]">>, <<" ">>, <<"\r">> }

\* lengths of the run of `a` put in front of the tokens
FillLens == {0, 77, 80}

Fill(n) == [k \in 1..n |-> "a"]

RECURSIVE Flatten(_)
Flatten(ts) == IF Len(ts) = 0 THEN <<>> ELSE ts[1] \o Flatten(Tail(ts))

TokenSeqs(n) == UNION {[1..m -> Tokens] : m \in 0..n}

\* the bare prefix followed by up to MaxTokens tokens, and every prefix
\* followed by a filler and up to MaxTokens - 2 tokens
GenLines ==
    {BarePrefix \o Flatten(ts) : ts \in TokenSeqs(MaxTokens)}
    \cup {pf[1] \o Fill(pf[2]) \o Flatten(ts) :
            pf \in Prefixes \X FillLens, ts \in TokenSeqs(MaxTokens - 2)}

\* the generated line under a phase header, a few generated lines without
\* a header, the empty document and a document with empty lines
LineDocs ==
    {Join(<<HeaderLine, l>>) : l \in GenLines}
    \cup {BarePrefix \o Flatten(ts) : ts \in TokenSeqs(1)}
    \cup {<<>>, Join(<<HeaderLine, <<>>, BarePrefix \o <<" ", "a">>, <<>>>>)}

InitLine ==
    /\ workspace \in {NoFolder, NoSpecs, Specs(<<NoTasksMd>>)}
                     \cup {Specs(<<TasksMd(d)>>) : d \in LineDocs}
    /\ InitLocals
    /\ InitWorkflowLocals
    /\ setup = NoSetup
    /\ files = EmptyTree

SpecLine == InitLine /\ [][Next]_vars

(***************************************************************************)
(* Third specification: the workflow steps, with the task tree at rest.    *)
(***************************************************************************)
InitWorkflow ==
    /\ workspace \in {NoFolder, Specs(<<>>)}
    /\ InitLocals
    /\ InitWorkflowLocals
    /\ setup \in Setups
    /\ files \in IF workspace.folder THEN WorkspaceFiles ELSE {EmptyTree}

SpecWorkflow == InitWorkflow /\ [][WorkflowNext]_vars

(***************************************************************************)
(* implementPhase(phaseItem) and verifyPhase(phaseItem), the commands of   *)
(* the phase items of the tree.  A prompt is a sequence of pieces: the     *)
(* fixed parts of the template are one piece each, the label and the task  *)
(* list are made of characters.                                            *)
(***************************************************************************)
\* tasks.filter(t => t.taskData && t.taskData.isCompleted)
CompletedOf(tasks) ==
    SelectSeq(tasks, LAMBDA t : t.taskData # Null /\ t.taskData.isCompleted)

\* IncompleteOf without the test of isCompleted
IncompleteOf_all(tasks) ==
    SelectSeq(tasks, LAMBDA t : t.taskData # Null)

\* tasks.filter(t => t.taskData && !t.taskData.isCompleted)
IncompleteOf(tasks) ==
    SelectSeq(tasks, LAMBDA t : t.taskData # Null /\ ~t.taskData.isCompleted)

\* `- ${t.taskData.taskId}: ${t.taskData.description}`
ImplementLine(t) ==
    <<"-", " ">> \o t.taskData.taskId \o <<":", " ">> \o t.taskData.description

\* `${status} ${t.taskData.taskId}: ${t.taskData.description}`
VerifyLine(t) ==
    <<IF t.taskData.isCompleted THEN "CHECK" ELSE "CROSS", " ">>
        \o t.taskData.taskId \o <<":", " ">> \o t.taskData.description

\* the prompt of implementPhase
ImplementPrompt(label, incomplete) ==
    <<"Implement all tasks in this phase:", "\n", "\n">> \o label
        \o <<"\n", "\n", "Tasks to implement:", "\n">>
        \o Join([k \in 1..Len(incomplete) |-> ImplementLine(incomplete[k])])
        \o <<"\n", "\n", "Please implement these tasks sequentially">>

\* the prompt of verifyPhase
VerifyPrompt(label, tasks, completed) ==
    <<"Verify implementation of this phase:", "\n", "\n">> \o label
        \o <<"\n", "\n", "Tasks status:", "\n">>
        \o Join([k \in 1..Len(tasks) |-> VerifyLine(tasks[k])])
        \o <<"\n", "\n", "Summary: ", ToString(Len(completed)), "/",
             ToString(Len(tasks)), " tasks completed", "\n", "\n",
             "Please verify">>

phaseRest == <<treeVars, runStepVars, runAllVars, clipboard>>

\* implementPhase up to its return or its first await
ImplementPhase(item) ==
    /\ pc = "shown"
    /\ ppc = "idle"
    /\ \E tasks \in {TasksOf(heap, item)} :
         \E incomplete \in {IncompleteOf(tasks)} :
            /\ phaseItem' = [label |-> item.label, tasks |-> tasks]
            /\ incompleteTasks' = incomplete
            /\ IF Len(incomplete) = 0
               THEN /\ messages' =
                          {Message("info", "All tasks in this phase are completed!")}
                    /\ ppc' = "idle"
               ELSE /\ messages' = {Message("warning", "Implement all tasks?")}
                    /\ ppc' = "confirm"
    /\ completedTasks' = <<>>
    /\ confirm' = "none"
    /\ UNCHANGED <<phaseRest, chat, query>>

\* the answer to 'Implement all N tasks in ...?': on 'Yes' the command
\* workbench.action.chat.open is executed with the prompt as its query
ConfirmImplement(answer) ==
    /\ ppc = "confirm"
    /\ confirm' = answer
    /\ IF answer # "Yes"
       THEN ppc' = "idle" /\ UNCHANGED query
       ELSE /\ query' = ImplementPrompt(phaseItem.label, incompleteTasks)
            /\ ppc' = "implementChat"
    /\ UNCHANGED <<phaseRest, phaseItem, completedTasks, incompleteTasks, messages, chat>>

\* workbench.action.chat.open of implementPhase resolves or throws
ImplementOpenChat(available) ==
    /\ ppc = "implementChat"
    /\ IF available
       THEN chat' = TRUE /\ UNCHANGED messages
       ELSE /\ messages' = messages \cup
                  {Message("error", "GitHub Copilot not available")}
            /\ UNCHANGED chat
    /\ ppc' = "idle"
    /\ UNCHANGED <<phaseRest, phaseItem, completedTasks, incompleteTasks, confirm, query>>

\* verifyPhase up to its first await; reading isCompleted of a missing
\* taskData throws a TypeError
VerifyPhase(item) ==
    /\ pc = "shown"
    /\ ppc = "idle"
    /\ \E tasks \in {TasksOf(heap, item)} :
          /\ phaseItem' = [label |-> item.label, tasks |-> tasks]
          /\ completedTasks' = CompletedOf(tasks)
          /\ incompleteTasks' = IncompleteOf(tasks)
          /\ IF \E k \in 1..Len(tasks) : tasks[k].taskData = Null
             THEN /\ messages' = {Message("thrown", "TypeError")}
                  /\ ppc' = "idle"
                  /\ UNCHANGED query
             ELSE /\ query' = VerifyPrompt(item.label, tasks, CompletedOf(tasks))
                  /\ messages' = {}
                  /\ ppc' = "verifyChat"
    /\ confirm' = "none"
    /\ UNCHANGED <<phaseRest, chat>>

\* workbench.action.chat.open of verifyPhase resolves or throws; the catch
\* block shows the counts of completedTasks, tasks and incompleteTasks
VerifyOpenChat(available) ==
    /\ ppc = "verifyChat"
    /\ IF available
       THEN chat' = TRUE /\ UNCHANGED messages
       ELSE /\ messages' = messages \cup {Message("info", "Verify: Completed, Incomplete")}
            /\ UNCHANGED chat
    /\ ppc' = "idle"
    /\ UNCHANGED <<phaseRest, phaseItem, completedTasks, incompleteTasks, confirm, query>>

\* the phase items of the tree that is shown
PhaseItems == {root[k] : k \in {j \in 1..Len(root) : root[j].type = "phase"}}

PhaseNext ==
    \/ Next
    \/ \E item \in PhaseItems : ImplementPhase(item)
    \/ \E answer \in {"Yes", "No", "undefined"} : ConfirmImplement(answer)
    \/ \E available \in BOOLEAN : ImplementOpenChat(available)
    \/ \E item \in PhaseItems : VerifyPhase(item)
    \/ \E available \in BOOLEAN : VerifyOpenChat(available)

(***************************************************************************)
(* Fourth specification: the commands of the phase items, on the trees of  *)
(* the documents of MaxLines lines of the catalog and of the example       *)
(* document.                                                               *)
(***************************************************************************)
PhaseDocs == {Join(ls) : ls \in [1..MaxLines -> LineCatalog \ {<<>>}]}

InitPhase ==
    /\ workspace \in {NoFolder, NoSpecs, Specs(<<NoTasksMd, TasksMd(ExampleDoc)>>)}
                     \cup {Specs(<<TasksMd(doc)>>) : doc \in PhaseDocs}
    /\ InitLocals
    /\ InitWorkflowLocals
    /\ setup = NoSetup
    /\ files = EmptyTree

SpecPhase == InitPhase /\ [][PhaseNext]_vars

(***************************************************************************)
(* Properties of the parser.  A finished parse is an entry e of parseLog:  *)
(* e.text are the lines of the document and e.shape the phases returned.   *)
(***************************************************************************)
\* zero-based indices of the lines that match the phase header pattern, in
\* increasing order
HeaderSeq(text) ==
    LET IsHeader(n) == PhaseMatch(text[n + 1]) # Null
    IN  SelectSeq([n \in 1..Len(text) |-> n - 1], IsHeader)

\* the name given to the phase of header line h
HeaderLabel(text, h) ==
    PhaseMatch(text[h + 1]).g1 \o <<":", " ">> \o PhaseMatch(text[h + 1]).g2

\* zero-based indices of the lines that match the task pattern
TaskLines(text) == {n \in 0..(Len(text) - 1) : TaskMatch(text[n + 1]) # Null}

\* line n lies below the k-th header of hs and above the next one
UnderHeader(hs, k, n) == hs[k] < n /\ (k = Len(hs) \/ n < hs[k + 1])

\* the taskData objects of a finished parse
LoggedTasks(e) ==
    UNION {{e.shape[k].tasks[t].taskData : t \in 1..Len(e.shape[k].tasks)} :
              k \in 1..Len(e.shape)}

\* C1: every task of the output is in the task list of the phase created by
\* the nearest phase header line above the task's line; the returned list
\* holds phases only, and the root of the tree holds no task.
C1_TaskInNearestPhase ==
    /\ \A e \in parseLog : \A hs \in {HeaderSeq(e.text)} :
          \A k \in 1..Len(e.shape) :
             /\ e.shape[k].type = "phase"
             /\ k <= Len(hs)
             /\ \A t \in 1..Len(e.shape[k].tasks) :
                   /\ e.shape[k].tasks[t].type = "task"
                   /\ UnderHeader(hs, k, e.shape[k].tasks[t].taskData.lineNumber)
    /\ \A k \in 1..Len(root) : root[k].type \in {"phase", "info"}

\* a document with two phases that both have tasks has been parsed
C1_Witness ==
    \E e \in parseLog :
        /\ Len(e.shape) >= 2
        /\ Len(e.shape[1].tasks) >= 1
        /\ Len(e.shape[2].tasks) >= 1

\* C2: the phases of the output are in the order of their header lines, and
\* the tasks of each phase are in increasing source-line order.
C2_DocumentOrder ==
    \A e \in parseLog : \A hs \in {HeaderSeq(e.text)} :
        \A k \in 1..Len(e.shape) :
           /\ k <= Len(hs)
           /\ e.shape[k].label = HeaderLabel(e.text, hs[k])
           /\ \A t \in 1..(Len(e.shape[k].tasks) - 1) :
                 e.shape[k].tasks[t].taskData.lineNumber
                   < e.shape[k].tasks[t + 1].taskData.lineNumber

\* a document with two differently named phases, one of them with two
\* tasks, has been parsed
C2_Witness ==
    \E e \in parseLog :
        /\ Len(e.shape) >= 2
        /\ e.shape[1].label # e.shape[2].label
        /\ \E k \in 1..Len(e.shape) : Len(e.shape[k].tasks) >= 2

\* C3: a line that matches the task pattern above the first phase header
\* yields no task and no phase of its own, and the scan raises no error.
C3_TaskBeforeFirstHeaderDropped ==
    /\ pc # "error"
    /\ \A e \in parseLog : \A hs \in {HeaderSeq(e.text)} :
          \A n \in TaskLines(e.text) :
             (hs = <<>> \/ n < hs[1])
             => /\ \A d \in LoggedTasks(e) : d.lineNumber # n
                /\ Len(e.shape) = Len(hs)
                /\ \A k \in 1..Len(e.shape) :
                      e.shape[k].label = HeaderLabel(e.text, hs[k])

\* a document with a task line above its first phase header has been parsed
C3_Witness ==
    \E e \in parseLog : \E n \in TaskLines(e.text) :
        /\ HeaderSeq(e.text) # <<>>
        /\ n < HeaderSeq(e.text)[1]

\* C4: the output has one phase per line matching the phase header pattern;
\* a header without task lines yields a phase with an empty task list, and
\* a text without header yields the empty list.
C4_OnePhasePerHeader ==
    \A e \in parseLog : \A hs \in {HeaderSeq(e.text)} :
        /\ Len(e.shape) = Len(hs)
        /\ \A k \in 1..Len(e.shape) :
              (\A n \in TaskLines(e.text) : ~UnderHeader(hs, k, n))
              => e.shape[k].tasks = <<>>

\* a document whose last header has no task line below it has been parsed,
\* and its last phase is in the output without tasks
C4_Witness ==
    \E e \in parseLog :
        /\ Len(e.shape) >= 1
        /\ e.shape[Len(e.shape)].tasks = <<>>
        /\ PhaseMatch(e.text[Len(e.text)]) # Null

\* the loop body has run once for each of the first i lines, in order
VisitedInOrder == i <= Len(lines) /\ visited = [k \in 1..i |-> k - 1]

\* C5: the scan of a document never reaches an error, runs its body once
\* per line in order, and ends after the last line.
C5_ScanTerminates ==
    /\ [](pc # "error")
    /\ [](pc = "scan" => VisitedInOrder)
    /\ (pc = "scan") ~> (pc = "features" /\ i = Len(lines) /\ VisitedInOrder)

\* the scan of a document with a line of more than 80 characters has ended
C5_Witness ==
    /\ pc = "features"
    /\ Len(visited) = Len(lines)
    /\ \E n \in 1..Len(lines) : Len(lines[n]) > 80

\* C6: a text parsed twice gives the same phases and tasks both times, and
\* every parse starts without open phase, with an empty task list and an
\* empty result.
C6_ParseIsPure ==
    /\ \A a, b \in parseLog : a.text = b.text => a.shape = b.shape
    /\ (pc = "scan" /\ i = 0)
       => /\ currentPhase = Null
          /\ phases = <<>>
          /\ heap[currentTasks] = <<>>

\* the first of two different documents has been parsed a second time,
\* after the other one, and both have phases
C6_Witness ==
    /\ pc = "features"
    /\ featureIdx = 2
    /\ Len(workspace.features) = 2
    /\ workspace.features[1].content # workspace.features[2].content
    /\ Cardinality(parseLog) = 2
    /\ \A e \in parseLog : Len(e.shape) >= 1

\* the text of a task line after its id as the parser takes it: the third
\* group of the task pattern, trimmed
RawDescription(line) == Trim(TaskMatch(line).g3)

\* C7: the stored description of a task contains neither `[P]` nor a match
\* of `[US<digits>]`.
C7_NoTagInDescription ==
    \A e \in parseLog : \A d \in LoggedTasks(e) :
        /\ ~Includes(d.description, <<"[", "P", "]">>)
        /\ StoryMatch(d.description) = Null

\* C8: removing every `[P]` and then every `[US<digits>]` from the text
\* after a task id gives the same string as removing them in the other
\* order.
C8_StripOrderIndependent ==
    \A e \in parseLog : \A n \in TaskLines(e.text) :
        ReplaceAll(ReplaceAll(RawDescription(e.text[n + 1]), "P"), "US")
          = ReplaceAll(ReplaceAll(RawDescription(e.text[n + 1]), "US"), "P")

\* C9: the id of a task is `T` with the whole run of digits that follows it
\* in the line, and the description is made of the text after that run.
C9_IdIsWholeDigitRun ==
    \A e \in parseLog : \A d \in LoggedTasks(e) :
        LET line == e.text[d.lineNumber + 1]
            run == RunIn(line, 8, Digits)
            rest == SubSeq(line, 8 + run,
                           7 + run + RunNotIn(line, 8 + run, LineTerminators))
        IN  /\ d.taskId = SubSeq(line, 7, 7 + run)
            /\ d.description = Truncate(CleanDesc(Trim(rest)))

\* C10: a cleaned description of more than 80 characters is stored as its
\* first 77 characters and `...`, 80 characters in all; a shorter one is
\* stored as it is, whatever the length of the raw text; no stored
\* description has more than 80 characters.
C10_TruncationAfterCleaning ==
    \A e \in parseLog : \A d \in LoggedTasks(e) :
        LET clean == CleanDesc(RawDescription(e.text[d.lineNumber + 1]))
        IN  /\ Len(d.description) <= 80
            /\ Len(clean) > 80
               => /\ Len(d.description) = 80
                  /\ SubSeq(d.description, 1, 77) = SubSeq(clean, 1, 77)
                  /\ SubSeq(d.description, 78, 80) = <<".", ".", ".">>
            /\ Len(clean) <= 80 => d.description = clean

\* a task whose cleaned description has more than 80 characters has been
\* stored with 80
C10_Witness ==
    \E e \in parseLog : \E d \in LoggedTasks(e) :
        /\ Len(CleanDesc(RawDescription(e.text[d.lineNumber + 1]))) > 80
        /\ Len(d.description) = 80

\* a task whose raw text has more than 80 characters and whose cleaned text
\* has not has been stored unchanged
C10_WitnessUntruncated ==
    \E e \in parseLog : \E d \in LoggedTasks(e) :
        /\ Len(RawDescription(e.text[d.lineNumber + 1])) > 80
        /\ Len(d.description) <= 80
        /\ d.description = CleanDesc(RawDescription(e.text[d.lineNumber + 1]))

\* the text of a line that follows the id stored for its task, as far as
\* the task pattern reads it: up to the first line terminator
TextAfterId(line, taskId) ==
    LET p == 7 + Len(taskId)
    IN  SubSeq(line, p, p + RunNotIn(line, p, LineTerminators) - 1)

\* C11: a task is completed exactly when the checklist marker of its line
\* is `x` or `X`; a task whose marker is a space is not completed.
C11_CompletedIffMarkerX ==
    \A e \in parseLog : \A d \in LoggedTasks(e) :
        LET marker == e.text[d.lineNumber + 1][4]
        IN  /\ d.isCompleted \in BOOLEAN
            /\ d.isCompleted <=> marker \in {"x", "X"}
            /\ marker = " " => ~d.isCompleted

\* a task whose marker is `X` has been stored as completed
C11_Witness ==
    \E e \in parseLog : \E d \in LoggedTasks(e) :
        /\ e.text[d.lineNumber + 1][4] = "X"
        /\ d.isCompleted

IsStoryTagAt(raw, p, n) ==
    /\ LitAt(raw, p, <<"[", "U", "S">>)
    /\ p + 3 + n <= Len(raw)
    /\ \A k \in 1..n : raw[p + 2 + k] \in Digits
    /\ raw[p + 3 + n] = "]"

\* the positions of raw where a substring of the form `[US<digits>]` starts
StoryTags(raw) ==
    {p \in 1..Len(raw) : \E n \in 1..(Len(raw) - p) : IsStoryTagAt(raw, p, n)}

TaskPlaces(e) ==
    UNION {{<<k, t>> : t \in 1..Len(e.shape[k].tasks)} : k \in 1..Len(e.shape)}

\* C14: every line that matches the task pattern below a phase header
\* yields exactly one task, which carries the id of its line, so there are
\* as many tasks as such lines and lines with equal ids yield separate
\* tasks.
C14_DuplicateIdsKept ==
    \A e \in parseLog : \A hs \in {HeaderSeq(e.text)} :
        \A below \in {{n \in TaskLines(e.text) : hs # <<>> /\ hs[1] < n}} :
            /\ \A n \in below :
                  /\ Cardinality({kt \in TaskPlaces(e) :
                        e.shape[kt[1]].tasks[kt[2]].taskData.lineNumber = n}) = 1
                  /\ \A kt \in TaskPlaces(e) :
                        e.shape[kt[1]].tasks[kt[2]].taskData.lineNumber = n
                        => e.shape[kt[1]].tasks[kt[2]].taskData.taskId
                             = TaskMatch(e.text[n + 1]).g2
            /\ Cardinality(TaskPlaces(e)) = Cardinality(below)

\* two lines with the same id under one header have been stored as two
\* tasks of one phase
C14_Witness ==
    \E e \in parseLog : \E k \in 1..Len(e.shape) :
        \E t, u \in 1..Len(e.shape[k].tasks) :
            /\ t < u
            /\ e.shape[k].tasks[t].taskData.taskId = e.shape[k].tasks[u].taskData.taskId
            /\ e.shape[k].tasks[t].taskData.lineNumber
                 # e.shape[k].tasks[u].taskData.lineNumber

\* C15: the line number of the t-th task of the k-th phase is the
\* zero-based index, in the text split on `\n`, of the t-th task line under
\* the k-th header; and the command of every task item of the tree opens
\* the file the task was read from with the selection on that line alone.
C15_SourceLineIsLineIndex ==
    /\ \A e \in parseLog : \A hs \in {HeaderSeq(e.text)} :
          \A k \in 1..Len(e.shape) : \A t \in 1..Len(e.shape[k].tasks) :
             \A n \in {e.shape[k].tasks[t].taskData.lineNumber} :
                /\ n \in TaskLines(e.text)
                /\ k <= Len(hs)
                /\ UnderHeader(hs, k, n)
                /\ Cardinality({m \in TaskLines(e.text) :
                                   UnderHeader(hs, k, m) /\ m < n}) = t - 1
    /\ pc = "shown"
       => \A f \in 1..Len(workspace.features) :
             \A text \in {Split(workspace.features[f].content)} :
                \A k \in 1..Len(root) :
                   (root[k].type = "phase" /\ root[k].filePath = TasksPath(f))
                   => \A t \in 1..Len(TasksOf(heap, root[k])) :
                         LET item == TasksOf(heap, root[k])[t]
                             n == item.taskData.lineNumber
                         IN  /\ item.command # Null
                             /\ item.command.command = "vscode.open"
                             /\ item.command.uri = TasksPath(f)
                             /\ item.command.selection = <<n, 0, n, 0>>
                             /\ n + 1 \in 1..Len(text)
                             /\ TaskMatch(text[n + 1]) # Null
                             /\ TaskMatch(text[n + 1]).g2 = item.taskData.taskId

\* the tree shows a task read from the third or a later line of the second
\* file
C15_Witness ==
    /\ pc = "shown"
    /\ \E k \in 1..Len(root) :
          /\ root[k].type = "phase"
          /\ root[k].filePath = TasksPath(2)
          /\ \E t \in 1..Len(TasksOf(heap, root[k])) :
                /\ TasksOf(heap, root[k])[t].taskData.lineNumber >= 2
                /\ TasksOf(heap, root[k])[t].command.selection[1] >= 2

\* the phase header lines of the tasks.md files of the workspace: <<f, h>>
\* is the h-th header of the file of the f-th entry of specs/
WorkspaceHeaders ==
    UNION {{<<f, h>> : h \in 1..Len(HeaderSeq(Split(workspace.features[f].content)))} :
              f \in {g \in 1..Len(workspace.features) : workspace.features[g].tasksMd}}

\* header a comes before header b in the order of the files and their lines
HeaderBefore(a, b) == a[1] < b[1] \/ (a[1] = b[1] /\ a[2] < b[2])

\* C16: with a workspace folder and specs/, the root of the tree is one
\* informational item that cannot be expanded exactly when the tasks.md
\* files hold no phase header; otherwise it is the phases of the files, in
\* order, and nothing else.
C16_PlaceholderIffNoPhase ==
    (pc = "shown" /\ workspace.folder /\ workspace.specs)
    => \A hs \in {WorkspaceHeaders} :
          /\ (/\ Len(root) = 1
              /\ root[1].type = "info"
              /\ root[1].collapsibleState = None) <=> hs = {}
          /\ hs # {}
             => /\ Len(root) = Cardinality(hs)
                /\ \A k \in 1..Len(root) :
                      /\ root[k].type = "phase"
                      /\ \E a \in hs :
                            /\ Cardinality({b \in hs : HeaderBefore(b, a)}) = k - 1
                            /\ root[k].filePath = TasksPath(a[1])
                            /\ \A text \in {Split(workspace.features[a[1]].content)} :
                                  root[k].label
                                    = HeaderLabel(text, HeaderSeq(text)[a[2]])

\* a tasks.md with task lines and no phase header has been parsed, and the
\* root is the one informational item
C16_Witness ==
    /\ pc = "shown"
    /\ Len(root) = 1
    /\ root[1].type = "info"
    /\ \E e \in parseLog : e.shape = <<>> /\ TaskLines(e.text) # {}

\* C17: the example document yields the phases `Phase 1: Setup` with T001
\* (completed, story `[US1]`, `Initialize project`) and T002 (not completed,
\* parallelizable, `Add linting`), and `Phase 2: Build` with T003
\* (parallelizable, story `[US2]`, `Compile sources`), and nothing else.
C17_ExampleDocument ==
    \A e \in parseLog :
        e.text = Split(ExampleDoc)
        => /\ Len(e.shape) = 2
           /\ e.shape[1].label = <<"P", "h", "a", "s", "e", " ", "1", ":", " ", "S", "e", "t", "u", "p">>
           /\ e.shape[2].label = <<"P", "h", "a", "s", "e", " ", "2", ":", " ", "B", "u", "i", "l", "d">>
           /\ Len(e.shape[1].tasks) = 2
           /\ Len(e.shape[2].tasks) = 1
           /\ LET T001 == e.shape[1].tasks[1].taskData
                  T002 == e.shape[1].tasks[2].taskData
                  T003 == e.shape[2].tasks[1].taskData
              IN  /\ T001.taskId = <<"T", "0", "0", "1">>
                  /\ T001.isCompleted
                  /\ T001.story = <<"[", "U", "S", "1", "]">>
                  /\ T001.description = <<"I", "n", "i", "t", "i", "a", "l", "i", "z", "e", " ", "p", "r", "o", "j", "e", "c", "t">>
                  /\ T002.taskId = <<"T", "0", "0", "2">>
                  /\ ~T002.isCompleted
                  /\ T002.hasParallel
                  /\ T002.description = <<"A", "d", "d", " ", "l", "i", "n", "t", "i", "n", "g">>
                  /\ T003.taskId = <<"T", "0", "0", "3">>
                  /\ T003.hasParallel
                  /\ T003.story = <<"[", "U", "S", "2", "]">>
                  /\ T003.description = <<"C", "o", "m", "p", "i", "l", "e", " ", "s", "o", "u", "r", "c", "e", "s">>

\* the example document has been parsed
C17_Witness ==
    \E e \in parseLog : e.text = Split(ExampleDoc) /\ Len(e.shape) = 2

(***************************************************************************)
(* Properties of the workflow steps.                                       *)
(***************************************************************************)
\* C18: when a step other than init writes the clipboard, the text is the
\* slash command of the step, followed for constitution, specify and plan
\* by one space and the input when the input is not empty; for tasks and
\* implement it is the command alone.
C18_ClipboardIsSlashCommand ==
    [][(wpc = "execute" /\ wpc' = "notify")
       => /\ step # "init"
          /\ step = "constitution"
             => clipboard' = IF userInput.value = <<>> THEN <<"/speckit.constitution">>
                             ELSE <<"/speckit.constitution", " ">> \o userInput.value
          /\ step = "specify"
             => clipboard' = IF userInput.value = <<>> THEN <<"/speckit.specify">>
                             ELSE <<"/speckit.specify", " ">> \o userInput.value
          /\ step = "plan"
             => clipboard' = IF userInput.value = <<>> THEN <<"/speckit.plan">>
                             ELSE <<"/speckit.plan", " ">> \o userInput.value
          /\ step = "tasks" => clipboard' = <<"/speckit.tasks">>
          /\ step = "implement" => clipboard' = <<"/speckit.implement">>]_vars

\* the plan step has written its command with an input of several
\* characters
C18_Witness ==
    /\ wpc = "notify"
    /\ step = "plan"
    /\ userInput = StringValue(<<"a", " ", "b">>)
    /\ clipboard = <<"/speckit.plan", " ", "a", " ", "b">>

\* the init step has shown its success message
InitSucceeded ==
    /\ wpc = "idle"
    /\ step = "init"
    /\ Message("info", "Spec-Kit initialized successfully!") \in messages

\* C19: after the init step has ended with its success message, with a
\* setup/ that holds .github, .specify and .vscode, the workspace holds the
\* folders .github, .specify and .vscode.
C19_InitCreatesFolders ==
    (/\ InitSucceeded
     /\ workspace.folder
     /\ {<<".github">>, <<".specify">>, <<".vscode">>} \subseteq setup.tree.dirs)
    => {<<".github">>, <<".specify">>, <<".vscode">>} \subseteq files.dirs

\* the bundled and the workspace settings.json paths
SettingsPath == <<".vscode", "settings.json">>

\* copyVSCodeSettings has run in this call of the init step
SettingsCopied == wpc = "directories" /\ dirIdx > Len(Directories)

\* C20: when copyVSCodeSettings has run with bundled settings and existing
\* workspace settings of which one does not parse as JSON, the warning has
\* been shown and the workspace settings are what they were.
C20_FailedMergeKeepsDestination ==
    (/\ SettingsCopied
     /\ SettingsPath \in DOMAIN setup.tree.files
     /\ SettingsPath \in DOMAIN initLog.files
     /\ \/ JsonParse(StripComments(setup.tree.files[SettingsPath])) = Thrown
        \/ JsonParse(initLog.files[SettingsPath]) = Thrown)
    => /\ Message("warning", "Could not merge .vscode/settings.json") \in messages
       /\ files.files[SettingsPath] = initLog.files[SettingsPath]

\* C21: the files and directories of the workspace change only in the init
\* step, with a workspace folder open and either no .specify when the copy
\* started or the answer 'Reinitialize'; the step that finds no workspace
\* folder and the answers 'Open .specify/', 'Cancel' and no answer end the
\* call and change no file or directory.
C21_CopyOnlyWhenAsked ==
    [][/\ files' # files
          => /\ workspace.folder
             /\ step = "init"
             /\ wpc = "directories"
             /\ ~ExistsSync(initLog, <<".specify">>) \/ choice = "Reinitialize"
       /\ (wpc = "execute" /\ wpc' # wpc /\ step = "init" /\ ~workspace.folder)
          => wpc' = "idle" /\ files' = files
       /\ (wpc = "choice" /\ wpc' # wpc /\ choice' # "Reinitialize")
          => wpc' = "idle" /\ files' = files]_vars

\* the copy has changed the workspace after the answer 'Reinitialize'
C21_Witness ==
    /\ wpc = "directories"
    /\ choice = "Reinitialize"
    /\ ExistsSync(initLog, <<".specify">>)
    /\ files # initLog

\* the keys of a parsed object and the value of a key
KeysOf(object) == {object.pairs[n][2] : n \in 1..Len(object.pairs)}

ValueOf(object, key) ==
    object.pairs[CHOOSE n \in 1..Len(object.pairs) : object.pairs[n][2] = key][3]

C23_ChatAfterClipboard ==
    [][/\ (wpc' = "chat" /\ wpc # "chat")
          => /\ wpc = "notify"
             /\ choice' = "Open Copilot Chat"
             /\ Message("info", "Copied to clipboard") \in messages
             /\ clipboard' = clipboard
       /\ (wpc = "notify" /\ wpc' # wpc /\ choice' # "Open Copilot Chat")
          => wpc' = "idle" /\ chat' = chat /\ clipboard' = clipboard
       /\ (wpc = "chat" /\ wpc' # wpc)
          => /\ wpc' = "idle"
             /\ clipboard' = clipboard
             /\ messages' \subseteq
                   messages \cup {Message("error", "GitHub Copilot not available")}
             /\ chat' # chat => messages' = messages
       /\ (rpc' = "chat" /\ rpc # "chat")
          => /\ rpc = "notify"
             /\ runAllChoice' = "Open Copilot Chat"
             /\ clipboard' = clipboard
       /\ (rpc = "notify" /\ rpc' # rpc /\ runAllChoice' # "Open Copilot Chat")
          => rpc' = "idle" /\ chat' = chat /\ clipboard' = clipboard
       /\ (rpc = "chat" /\ rpc' # rpc)
          => /\ rpc' = "idle"
             /\ clipboard' = clipboard
             /\ messages' \subseteq
                   messages \cup {Message("error", "GitHub Copilot not available")}
       /\ chat' # chat
          => \/ wpc = "chat" /\ wpc' = "idle" /\ choice = "Open Copilot Chat"
             \/ rpc = "chat" /\ rpc' = "idle" /\ runAllChoice = "Open Copilot Chat"
       /\ (rpc' = "notify" /\ rpc # "notify")
          => clipboard' = <<"/speckit.implement">> /\ chat' = chat]_vars

\* the chat panel could not be opened after the specify step wrote its
\* prompt: the error is shown and the clipboard holds the prompt
C23_Witness ==
    /\ wpc = "idle"
    /\ step = "specify"
    /\ choice = "Open Copilot Chat"
    /\ Message("error", "GitHub Copilot not available") \in messages
    /\ clipboard = <<"/speckit.specify", " ", "a">>
    /\ ~chat

\* copySetupFiles has been called in the last call of the init step
CopyCalled ==
    /\ step = "init"
    /\ Message("info", "Initializing Spec-Kit...") \in messages

Recursive(path) == path # <<>> /\ path[1] \in {".github", ".specify"}

\* C25: while and after the directories are copied, every directory the
\* workspace had is still there, every file it had that has no file of the
\* same path in setup/ is still there with its content, and every
\* directory and file that is new below .github and .specify has a
\* directory or file of the same path in setup/.
C25_CopyKeepsOtherPaths ==
    (CopyCalled /\ setup.exists)
    => /\ initLog.dirs \subseteq files.dirs
       /\ \A path \in DOMAIN initLog.files :
             /\ path \in DOMAIN files.files
             /\ (Recursive(path) /\ path \notin DOMAIN setup.tree.files)
                => files.files[path] = initLog.files[path]
       /\ \A path \in files.dirs \ initLog.dirs :
             Recursive(path) => path \in setup.tree.dirs
       /\ \A path \in (DOMAIN files.files) \ (DOMAIN initLog.files) :
             Recursive(path) => path \in DOMAIN setup.tree.files

\* .specify has been copied over a .specify with a file of the same path,
\* which has the bundled content now, and a file of its own, which is
\* what it was
C25_Witness ==
    /\ CopyCalled
    /\ wpc = "directories"
    /\ dirIdx = 3
    /\ <<".specify", "mine.md">> \in DOMAIN initLog.files
    /\ <<".specify", "mine.md">> \in DOMAIN files.files
    /\ files.files[<<".specify", "mine.md">>] = Text("v1")
    /\ initLog.files[<<".specify", "t.md">>] = Text("v1")
    /\ files.files[<<".specify", "t.md">>] = Text("v2")

\* C26: when the input box of constitution, specify or plan resolves with
\* undefined, runWorkflowStep ends in that step, and the clipboard, the
\* messages and the chat panel are what they were; when it resolves with a
\* string, the empty string included, the call goes on, and with the empty
\* string its next step writes the command alone to the clipboard and
\* shows 'Copied to clipboard'.
C26_CancelWritesNothing ==
    [][/\ (wpc = "input" /\ wpc' # wpc /\ userInput' = Undefined)
          => /\ wpc' = "idle"
             /\ clipboard' = clipboard
             /\ messages' = messages
             /\ chat' = chat
       /\ (wpc = "input" /\ wpc' # wpc /\ userInput' # Undefined)
          => wpc' = "execute"
       /\ (wpc = "execute" /\ wpc' # wpc /\ NeedsInput(step)
             /\ userInput = StringValue(<<>>))
          => /\ wpc' = "notify"
             /\ clipboard' = SlashCommand(step)
             /\ Message("info", "Copied to clipboard") \in messages'
       /\ (wpc = "execute" /\ NeedsInput(step)) => userInput # Undefined]_vars

\* the input box of the plan step was cancelled
C26_Witness ==
    /\ wpc = "idle"
    /\ step = "plan"
    /\ userInput = Undefined
    /\ messages = {}
    /\ clipboard # <<"/speckit.plan">>

\* C29: after the init step has succeeded, copying the same setup/ once
\* more would leave every directory and every file content of the
\* workspace as it is.
C29_InitIsIdempotent ==
    InitSucceeded => CopyAll(setup.tree, files) = files

\* C30: during the scan, every phase that has been appended to phases
\* stays at its place with its task array unchanged by the step, the array
\* of an appended phase is not the array currentTasks refers to, and a
\* step that keeps currentTasks changes no other array than that one.
C30_ClosedPhaseIsFrozen ==
    [][pc = "scan"
       => /\ \A k \in 1..Len(phases) :
                /\ Len(phases') >= k
                /\ phases'[k] = phases[k]
                /\ phases[k].tasks # currentTasks
                /\ TasksOf(heap', phases[k]) = TasksOf(heap, phases[k])
          /\ currentTasks' = currentTasks
             => /\ Len(heap') = Len(heap)
                /\ \A r \in 1..Len(heap) : r # currentTasks => heap'[r] = heap[r]]_vars

\* a task has been added to the open phase after a phase with a task was
\* appended
C30_Witness ==
    /\ pc = "scan"
    /\ Len(phases) >= 1
    /\ TasksOf(heap, phases[1]) # <<>>
    /\ currentPhase # Null
    /\ heap[currentTasks] # <<>>

(***************************************************************************)
(* Properties of the commands of the phase items.                          *)
(***************************************************************************)
\* the lines of the task list of a prompt of implementPhase: what stands
\* between the piece that announces the list and the three pieces that end
\* the prompt
TaskListOf(prompt) ==
    LET n == CHOOSE m \in 1..Len(prompt) : prompt[m] = "Tasks to implement:"
    IN  Split(SubSeq(prompt, n + 2, Len(prompt) - 3))

\* the tasks of a phase that are not completed, in the order of the phase
NotCompleted(tasks) ==
    KeepAt(tasks, {k \in 1..Len(tasks) : ~tasks[k].taskData.isCompleted})

AllCompleted == Message("info", "All tasks in this phase are completed!")

C28_PhaseTasksHaveData ==
    /\ pc = "shown"
       => \A k \in 1..Len(root) :
             root[k].type = "phase"
             => \A n \in 1..Len(TasksOf(heap, root[k])) :
                   /\ TasksOf(heap, root[k])[n].type = "task"
                   /\ TasksOf(heap, root[k])[n].taskData # Null
    /\ Message("thrown", "TypeError") \notin messages
    /\ ppc = "verifyChat"
       => /\ Len(completedTasks) + Len(incompleteTasks) = Len(phaseItem.tasks)
          /\ \A n \in {CHOOSE m \in 1..Len(query) : query[m] = "Summary: "} :
                /\ query[n + 1] = ToString(Len(completedTasks))
                /\ query[n + 3] = ToString(Len(phaseItem.tasks))

\* verifyPhase has built its prompt for a phase with a completed task and
\* a task that is not completed
C28_Witness ==
    /\ ppc = "verifyChat"
    /\ Len(completedTasks) = 1
    /\ Len(incompleteTasks) = 1
    /\ Len(phaseItem.tasks) = 2

(***************************************************************************)
(* The scan under the scheduling of JavaScript: parseTasksFile has no      *)
(* suspension point, so a started scan runs to its end.                    *)
(***************************************************************************)
FairSpecLine == SpecLine /\ WF_vars(ScanStep) /\ WF_vars(ParseEnd)

=============================================================================
